---- MODULE Spec2Model ----
(***************************************************************************)
(* Model of src/main.py: the /generate handler of the Blob -> Power BI     *)
(* multi-table push service, together with the remote services it calls    *)
(* (identity provider, blob storage, Power BI REST API).                   *)
(*                                                                         *)
(* Text that the code takes apart (blob names) is a sequence of tokens:    *)
(* "/" and "." are tokens of their own, every other token is a run of      *)
(* characters holding neither, so that basename, splitext, endswith and    *)
(* the prefix filter are computed as Python computes them.                 *)
(***************************************************************************)
EXTENDS Naturals, Sequences, FiniteSets, TLC

VARIABLES
    storage,     \* the blob storage account: the container and its blobs
    payload,     \* payload[r]: the JSON body of request r
    pc,          \* pc[r]: where the handler of request r stands
    token,       \* token[r]: generate's local `token`
    listing,     \* listing[r]: the blobs list_blobs yields to request r
    idx,         \* idx[r]: position of the running for loop
    tables,      \* tables[r]: the dict built by read_blob_tables
    dataset_id,  \* dataset_id[r]: generate's local `dataset_id` (0: unbound)
    report_id,   \* report_id[r]: generate's local `report_id` (0: unbound)
    response,    \* response[r]: the HTTP response of request r
    calls,       \* calls[r]: the remote calls request r has issued, in order
    datasets,    \* Power BI: the datasets created, by id
    reports      \* Power BI: the reports cloned, by id

vars == <<storage, payload, pc, token, listing, idx, tables, dataset_id,
          report_id, response, calls, datasets, reports>>

-----------------------------------------------------------------------------
(* Bounds of the model *)

\* the longest blob listing of the concurrent specification
ConcBlobs == 3
\* the longest blob listing of the table-discovery specification
MaxBlobs == 2
\* the most rows of a source file of the row-push specification
MaxRows == 2

\* the requests in flight at once
Reqs == {"r1", "r2"}

-----------------------------------------------------------------------------
(* Configuration and constants of the program *)

DATASET_NAME == "Migrated_Dataset"
TEMPLATE_WORKSPACE_ID == "tplws"
TEMPLATE_REPORT_ID == "tplrep"

\* payload.get(k) of a key the body does not hold
None == [none |-> TRUE]
Str(s) == [none |-> FALSE, s |-> s]

-----------------------------------------------------------------------------
(* Python library functions, on token sequences *)

Range(s) == {s[i] : i \in DOMAIN s}

\* str.rfind, 1-based; 0 when c does not occur
RECURSIVE rfind(_, _, _)
rfind(p, c, i) ==
    IF i = 0 THEN 0 ELSE IF p[i] = c THEN i ELSE rfind(p, c, i - 1)

\* os.path.basename(p): what follows the last "/"
basename(p) == SubSeq(p, rfind(p, "/", Len(p)) + 1, Len(p))

\* os.path.splitext(p)[0]: p up to its last ".", unless that dot leads the
\* file name (only dots between the last "/" and it)
splitext_root(p) ==
    LET sepIndex == rfind(p, "/", Len(p))
        dotIndex == rfind(p, ".", Len(p))
    IN  IF /\ dotIndex > sepIndex
           /\ \E k \in (sepIndex + 1)..(dotIndex - 1) : p[k] # "."
        THEN SubSeq(p, 1, dotIndex - 1)
        ELSE p

\* str.endswith
endswith(s, suffix) ==
    /\ Len(s) >= Len(suffix)
    /\ SubSeq(s, Len(s) - Len(suffix) + 1, Len(s)) = suffix

\* str.startswith, the name_starts_with filter of list_blobs
startswith(s, prefix) ==
    /\ Len(s) >= Len(prefix)
    /\ SubSeq(s, 1, Len(prefix)) = prefix

\* a faulty variant of dict_set: tables.setdefault(k, v), the first file of a name wins
dict_set_first(d, k, v) ==
    IF \E i \in DOMAIN d : d[i].name = k
    THEN d
    ELSE Append(d, [name |-> k, df |-> v])

\* d[k] = v on an insertion-ordered dict, kept as a sequence of items: a key
\* already present keeps its place and takes the new value
dict_set(d, k, v) ==
    IF \E i \in DOMAIN d : d[i].name = k
    THEN [i \in DOMAIN d |-> IF d[i].name = k THEN [name |-> k, df |-> v] ELSE d[i]]
    ELSE Append(d, [name |-> k, df |-> v])

dict_keys(d) == [i \in DOMAIN d |-> d[i].name]

-----------------------------------------------------------------------------
(* DataFrames: columns, and rows of cells. A cell is what pandas read: its  *)
(* kind (int, float, str, or null for NaN/None) and its text               *)

NaN == [kind |-> "null", text |-> "NaN"]
EmptyString == [kind |-> "str", text |-> ""]

\* pd.notnull on one cell
notnull(cell) == cell.kind # "null"

\* a faulty variant of where_notnull: the frame is sent as read
where_nothing(df) == df

\* df.where(pd.notnull(df), ""): a null cell becomes "", the others stay
where_notnull(df) ==
    [df EXCEPT !.rows =
        [i \in DOMAIN df.rows |->
            [j \in DOMAIN df.rows[i] |->
                IF notnull(df.rows[i][j]) THEN df.rows[i][j] ELSE EmptyString]]]

\* df.to_dict(orient="records"): one dict per row, keyed by column
to_dict_records(df) ==
    [i \in DOMAIN df.rows |->
        [c \in Range(df.columns) |->
            df.rows[i][CHOOSE j \in DOMAIN df.columns : df.columns[j] = c]]]

\* the rows push_rows sends for df
push_rows_body(df) == to_dict_records(where_notnull(df))

\* the payload create_dataset sends for tables
create_dataset_body(tbls) ==
    [name |-> DATASET_NAME,
     defaultMode |-> "Push",
     tables |-> [i \in DOMAIN tbls |->
        [name |-> tbls[i].name,
         columns |-> [j \in DOMAIN tbls[i].df.columns |->
            [name |-> tbls[i].df.columns[j], dataType |-> "string"]]]]]

-----------------------------------------------------------------------------
(* generate: validation and response *)

RequiredFields == {"container_name", "folder_name", "report_name", "target_workspace_id"}

\* payload.get(k)
get(p, k) == IF k \in DOMAIN p THEN Str(p[k]) ELSE None

\* Python truth of a value payload.get returns
truthy(v) == ~v.none /\ v.s # ""

\* a faulty variant of all_required: target_workspace_id is not checked
all_required_but_workspace(p) ==
    \A k \in RequiredFields \ {"target_workspace_id"} : truthy(get(p, k))

\* all([container_name, folder_name, report_name, target_workspace_id])
all_required(p) == \A k \in RequiredFields : truthy(get(p, k))

\* a faulty variant of response_body: reportId is filled from dataset_id
response_body_slip(r) ==
    [datasetId |-> dataset_id[r],
     reportId |-> dataset_id[r],
     tables |-> [i \in DOMAIN tables[r] |-> tables[r][i].name],
     workspaceId |-> payload[r]["target_workspace_id"]]

\* the dict generate returns
response_body(r) ==
    [datasetId |-> dataset_id[r],
     reportId |-> report_id[r],
     tables |-> dict_keys(tables[r]),
     workspaceId |-> payload[r]["target_workspace_id"]]

NoBody == [detail |-> ""]

\* one remote call, as logged
Call(op, ok, ws, ds, name) == [op |-> op, ok |-> ok, ws |-> ws, ds |-> ds, name |-> name]

-----------------------------------------------------------------------------
(* The handler, one action per step between two remote calls *)

\* an exception leaves generate: the request ends with an error response
Raise(r, status) ==
    /\ pc' = [pc EXCEPT ![r] = "failed"]
    /\ response' = [response EXCEPT ![r] = [status |-> status, body |-> NoBody]]

Log(r, call) == calls' = [calls EXCEPT ![r] = Append(@, call)]

\* generate, a payload lacking a required field: HTTPException(400)
generate_reject(r) ==
    /\ pc[r] = "start"
    /\ ~all_required(payload[r])
    /\ Raise(r, 400)
    /\ UNCHANGED <<storage, payload, token, listing, idx, tables, dataset_id,
                   report_id, calls, datasets, reports>>

\* generate, a complete payload: on to get_token
generate_accept(r) ==
    /\ pc[r] = "start"
    /\ all_required(payload[r])
    /\ pc' = [pc EXCEPT ![r] = "token"]
    /\ UNCHANGED <<storage, payload, token, listing, idx, tables, dataset_id,
                   report_id, response, calls, datasets, reports>>

\* get_token: the identity provider answers with an access token
get_token(r) ==
    /\ pc[r] = "token"
    /\ Log(r, Call("token", TRUE, "", 0, <<>>))
    /\ token' = [token EXCEPT ![r] = "access_token"]
    /\ pc' = [pc EXCEPT ![r] = "list"]
    /\ UNCHANGED <<storage, payload, listing, idx, tables, dataset_id,
                   report_id, response, datasets, reports>>

\* get_token: raise_for_status raises
get_token_fail(r) ==
    /\ pc[r] = "token"
    /\ Log(r, Call("token", FALSE, "", 0, <<>>))
    /\ Raise(r, 500)
    /\ UNCHANGED <<storage, payload, token, listing, idx, tables, dataset_id,
                   report_id, datasets, reports>>

\* the blobs container.list_blobs(name_starts_with=prefix) yields
list_blobs(container_name, folder_name) ==
    LET prefix == <<folder_name, "/">>
    IN  SelectSeq(storage.blobs, LAMBDA b : startswith(b.name, prefix))

\* read_blob_tables up to its for loop: the listing of the folder
read_blob_tables_list(r) ==
    /\ pc[r] = "list"
    /\ payload[r]["container_name"] = storage.container
    /\ Log(r, Call("list", TRUE, "", 0, <<>>))
    /\ listing' = [listing EXCEPT ![r] =
          list_blobs(payload[r]["container_name"], payload[r]["folder_name"])]
    /\ idx' = [idx EXCEPT ![r] = 1]
    /\ tables' = [tables EXCEPT ![r] = <<>>]
    /\ pc' = [pc EXCEPT ![r] = "blob"]
    /\ UNCHANGED <<storage, payload, token, dataset_id, report_id, response,
                   datasets, reports>>

\* read_blob_tables: the listing fails (no such container, storage error)
read_blob_tables_list_fail(r) ==
    /\ pc[r] = "list"
    /\ Log(r, Call("list", FALSE, "", 0, <<>>))
    /\ Raise(r, 500)
    /\ UNCHANGED <<storage, payload, token, listing, idx, tables, dataset_id,
                   report_id, datasets, reports>>

\* whether the loop body parses the file: .csv, .xls or .xlsx
is_table_file(file_name) ==
    \/ endswith(file_name, <<".", "csv">>)
    \/ endswith(file_name, <<".", "xls">>)
    \/ endswith(file_name, <<".", "xlsx">>)

\* the dict after the loop body has run on one downloaded blob
read_blob_into(tbls, blob) ==
    LET file_name == basename(blob.name)
        table_name == splitext_root(file_name)
    IN  IF is_table_file(file_name)
        THEN dict_set(tbls, table_name, blob.df)
        ELSE tbls

\* one turn of the for loop: download the blob, parse it when it is a table
\* file, skip it otherwise
read_blob(r) ==
    /\ pc[r] = "blob"
    /\ idx[r] <= Len(listing[r])
    /\ Log(r, Call("download", TRUE, "", 0, listing[r][idx[r]].name))
    /\ tables' = [tables EXCEPT ![r] = read_blob_into(@, listing[r][idx[r]])]
    /\ idx' = [idx EXCEPT ![r] = @ + 1]
    /\ UNCHANGED <<storage, payload, pc, token, listing, dataset_id, report_id,
                   response, datasets, reports>>

\* one turn of the for loop: download_blob raises, whatever the blob's name
read_blob_download_fail(r) ==
    /\ pc[r] = "blob"
    /\ idx[r] <= Len(listing[r])
    /\ Log(r, Call("download", FALSE, "", 0, listing[r][idx[r]].name))
    /\ Raise(r, 500)
    /\ UNCHANGED <<storage, payload, token, listing, idx, tables, dataset_id,
                   report_id, datasets, reports>>

\* one turn of the for loop: pd.read_csv / pd.read_excel raises on the content
read_blob_parse_fail(r) ==
    /\ pc[r] = "blob"
    /\ idx[r] <= Len(listing[r])
    /\ is_table_file(basename(listing[r][idx[r]].name))
    /\ Log(r, Call("download", TRUE, "", 0, listing[r][idx[r]].name))
    /\ Raise(r, 500)
    /\ UNCHANGED <<storage, payload, token, listing, idx, tables, dataset_id,
                   report_id, datasets, reports>>

\* a faulty variant of read_blob_tables_none: the check of an empty dict is
\* missing and the empty dict is returned
read_blob_tables_none_unchecked(r) ==
    /\ pc[r] = "blob"
    /\ idx[r] > Len(listing[r])
    /\ tables[r] = <<>>
    /\ pc' = [pc EXCEPT ![r] = "create"]
    /\ UNCHANGED <<storage, payload, token, listing, idx, tables, dataset_id,
                   report_id, response, calls, datasets, reports>>

\* read_blob_tables after the loop, no table: HTTPException(404)
read_blob_tables_none(r) ==
    /\ pc[r] = "blob"
    /\ idx[r] > Len(listing[r])
    /\ tables[r] = <<>>
    /\ Raise(r, 404)
    /\ UNCHANGED <<storage, payload, token, listing, idx, tables, dataset_id,
                   report_id, calls, datasets, reports>>

\* read_blob_tables after the loop: return tables
read_blob_tables_return(r) ==
    /\ pc[r] = "blob"
    /\ idx[r] > Len(listing[r])
    /\ tables[r] # <<>>
    /\ pc' = [pc EXCEPT ![r] = "create"]
    /\ UNCHANGED <<storage, payload, token, listing, idx, tables, dataset_id,
                   report_id, response, calls, datasets, reports>>

\* a faulty variant of items_at: the loop runs over reversed(tables.items())
items_at_reversed(tbls, i) == tbls[Len(tbls) + 1 - i]

\* a faulty variant of dataset_id_arg: the id is kept in a module-level variable that
\* the latest create_dataset of any request overwrites
dataset_id_global(r) == Len(datasets)

\* the item the for loop over tables.items() visits at its i-th turn
items_at(tbls, i) == tbls[i]

\* the dataset id generate hands to push_rows and clone_report
dataset_id_arg(r) == dataset_id[r]

\* a faulty variant of create_dataset: a dataset of the workspace is reused when there
\* is one, and no dataset is created
create_dataset_dedup(r) ==
    /\ pc[r] = "create"
    /\ IF \E d \in DOMAIN datasets : datasets[d].ws = payload[r]["target_workspace_id"]
       THEN /\ dataset_id' = [dataset_id EXCEPT ![r] =
                  CHOOSE d \in DOMAIN datasets :
                      datasets[d].ws = payload[r]["target_workspace_id"]]
            /\ UNCHANGED <<datasets, calls>>
       ELSE /\ calls' = [calls EXCEPT ![r] =
                  Append(@, [op |-> "create", ok |-> TRUE,
                             ws |-> payload[r]["target_workspace_id"],
                             ds |-> Len(datasets) + 1, name |-> <<>>])]
            /\ datasets' = Append(datasets,
                  [ws |-> payload[r]["target_workspace_id"],
                   body |-> [name |-> DATASET_NAME],
                   by |-> r,
                   pushed |-> <<>>])
            /\ dataset_id' = [dataset_id EXCEPT ![r] = Len(datasets) + 1]
    /\ idx' = [idx EXCEPT ![r] = 1]
    /\ pc' = [pc EXCEPT ![r] = "push"]
    /\ UNCHANGED <<storage, payload, token, listing, tables, report_id,
                   response, reports>>

\* create_dataset: the service creates the dataset and answers with its id
create_dataset(r) ==
    /\ pc[r] = "create"
    /\ Log(r, Call("create", TRUE, payload[r]["target_workspace_id"],
                   Len(datasets) + 1, <<>>))
    /\ datasets' = Append(datasets,
          [ws |-> payload[r]["target_workspace_id"],
           body |-> create_dataset_body(tables[r]),
           by |-> r,
           pushed |-> <<>>])
    /\ dataset_id' = [dataset_id EXCEPT ![r] = Len(datasets) + 1]
    /\ idx' = [idx EXCEPT ![r] = 1]
    /\ pc' = [pc EXCEPT ![r] = "push"]
    /\ UNCHANGED <<storage, payload, token, listing, tables, report_id,
                   response, reports>>

\* create_dataset: raise_for_status raises, no dataset is created
create_dataset_fail(r) ==
    /\ pc[r] = "create"
    /\ Log(r, Call("create", FALSE, payload[r]["target_workspace_id"], 0, <<>>))
    /\ Raise(r, 500)
    /\ UNCHANGED <<storage, payload, token, listing, idx, tables, dataset_id,
                   report_id, datasets, reports>>

\* one turn of generate's push loop: the rows of one table are added
push_rows(r) ==
    LET item == items_at(tables[r], idx[r])
        ws == payload[r]["target_workspace_id"]
        ds == dataset_id_arg(r)
    IN  /\ pc[r] = "push"
        /\ ds \in DOMAIN datasets
        /\ datasets[ds].ws = ws
        /\ Log(r, Call("push", TRUE, ws, ds, item.name))
        /\ datasets' = [datasets EXCEPT ![ds].pushed =
              Append(@, [table |-> item.name,
                         rows |-> push_rows_body(item.df),
                         by |-> r])]
        /\ IF idx[r] = Len(tables[r])
           THEN /\ pc' = [pc EXCEPT ![r] = "clone"]
                /\ idx' = idx
           ELSE /\ pc' = pc
                /\ idx' = [idx EXCEPT ![r] = @ + 1]
        /\ UNCHANGED <<storage, payload, token, listing, tables, dataset_id,
                       report_id, response, reports>>

\* a faulty variant of push_rows_fail: the error is swallowed and the loop goes on
push_rows_fail_swallowed(r) ==
    /\ pc[r] = "push"
    /\ calls' = [calls EXCEPT ![r] =
          Append(@, [op |-> "push", ok |-> FALSE,
                     ws |-> payload[r]["target_workspace_id"],
                     ds |-> dataset_id[r], name |-> tables[r][idx[r]].name])]
    /\ IF idx[r] = Len(tables[r])
       THEN /\ pc' = [pc EXCEPT ![r] = "clone"]
            /\ idx' = idx
       ELSE /\ pc' = pc
            /\ idx' = [idx EXCEPT ![r] = @ + 1]
    /\ UNCHANGED <<storage, payload, token, listing, tables, dataset_id,
                   report_id, response, datasets, reports>>

\* one turn of generate's push loop: raise_for_status raises, the loop and
\* the request end
push_rows_fail(r) ==
    LET item == items_at(tables[r], idx[r])
    IN  /\ pc[r] = "push"
        /\ Log(r, Call("push", FALSE, payload[r]["target_workspace_id"],
                       dataset_id_arg(r), item.name))
        /\ Raise(r, 500)
        /\ UNCHANGED <<storage, payload, token, listing, idx, tables,
                       dataset_id, report_id, datasets, reports>>

\* clone_report: the service clones the template and answers with the id
clone_report(r) ==
    LET ws == payload[r]["target_workspace_id"]
        ds == dataset_id_arg(r)
    IN  /\ pc[r] = "clone"
        /\ ds \in DOMAIN datasets
        /\ datasets[ds].ws = ws
        /\ Log(r, Call("clone", TRUE, ws, ds, <<>>))
        /\ reports' = Append(reports,
              [name |-> payload[r]["report_name"],
               targetWorkspaceId |-> ws,
               targetModelId |-> ds,
               template |-> <<TEMPLATE_WORKSPACE_ID, TEMPLATE_REPORT_ID>>,
               by |-> r])
        /\ report_id' = [report_id EXCEPT ![r] = Len(reports) + 1]
        /\ pc' = [pc EXCEPT ![r] = "return"]
        /\ UNCHANGED <<storage, payload, token, listing, idx, tables,
                       dataset_id, response, datasets>>

\* clone_report: raise_for_status raises, no report is cloned
clone_report_fail(r) ==
    /\ pc[r] = "clone"
    /\ Log(r, Call("clone", FALSE, payload[r]["target_workspace_id"],
                   dataset_id_arg(r), <<>>))
    /\ Raise(r, 500)
    /\ UNCHANGED <<storage, payload, token, listing, idx, tables, dataset_id,
                   report_id, datasets, reports>>

\* generate returns its dict: the 200 response
generate_return(r) ==
    /\ pc[r] = "return"
    /\ response' = [response EXCEPT ![r] = [status |-> 200, body |-> response_body(r)]]
    /\ pc' = [pc EXCEPT ![r] = "done"]
    /\ UNCHANGED <<storage, payload, token, listing, idx, tables, dataset_id,
                   report_id, calls, datasets, reports>>

Next ==
    \/ \E r \in DOMAIN payload : generate_reject(r)
    \/ \E r \in DOMAIN payload : generate_accept(r)
    \/ \E r \in DOMAIN payload : get_token(r)
    \/ \E r \in DOMAIN payload : get_token_fail(r)
    \/ \E r \in DOMAIN payload : read_blob_tables_list(r)
    \/ \E r \in DOMAIN payload : read_blob_tables_list_fail(r)
    \/ \E r \in DOMAIN payload : read_blob(r)
    \/ \E r \in DOMAIN payload : read_blob_download_fail(r)
    \/ \E r \in DOMAIN payload : read_blob_parse_fail(r)
    \/ \E r \in DOMAIN payload : read_blob_tables_none(r)
    \/ \E r \in DOMAIN payload : read_blob_tables_return(r)
    \/ \E r \in DOMAIN payload : create_dataset(r)
    \/ \E r \in DOMAIN payload : create_dataset_fail(r)
    \/ \E r \in DOMAIN payload : push_rows(r)
    \/ \E r \in DOMAIN payload : push_rows_fail(r)
    \/ \E r \in DOMAIN payload : clone_report(r)
    \/ \E r \in DOMAIN payload : clone_report_fail(r)
    \/ \E r \in DOMAIN payload : generate_return(r)

-----------------------------------------------------------------------------
(* Inputs: request payloads and storage contents *)

Int(t) == [kind |-> "int", text |-> t]
Float(t) == [kind |-> "float", text |-> t]
Text(t) == [kind |-> "str", text |-> t]

\* what pandas reads from orders.csv, customers.xlsx, and a file of no rows
Orders == [columns |-> <<"id", "name">>,
           rows |-> << <<Int("1"), Text("a")>>, <<Int("2"), NaN>> >>]
Customers == [columns |-> <<"cid">>, rows |-> << <<Float("1.5")>> >>]
NoFrame == [columns |-> <<>>, rows |-> <<>>]

Blob(name, df) == [name |-> name, df |-> df]

\* sequences of at most n blobs of pool, no two of one name
Listings(pool, n) ==
    UNION {{s \in [1..k -> pool] :
               \A i, j \in 1..k : i # j => s[i].name # s[j].name} : k \in 0..n}

Payload(c, f, n, w) ==
    [container_name |-> c, folder_name |-> f, report_name |-> n,
     target_workspace_id |-> w]

\* p without the keys of its fields that are given as "<absent>"
Present(p) == [k \in {k \in DOMAIN p : p[k] # "<absent>"} |-> p[k]]

ValidPayloads == {Payload("acme", "2024", "Q1 Report", w) : w \in {"ws1", "ws2"}}

FewPayloads == ValidPayloads \cup {Present(Payload("acme", "2024", "<absent>", "ws1"))}

AllPayloads ==
    {Present(Payload(c, f, n, w)) :
        c \in {"<absent>", "", "acme", "other"}, f \in {"<absent>", "", "2024"},
        n \in {"<absent>", "", "Q1 Report"}, w \in {"<absent>", "", "ws1", "ws2"}}

ConcBlobPool ==
    {Blob(<<"2024", "/", "orders", ".", "csv">>, Orders),
     Blob(<<"2024", "/", "customers", ".", "xlsx">>, Customers),
     Blob(<<"2024", "/", "notes", ".", "txt">>, NoFrame)}

TableFileNames ==
    {<<"2024", "/", "orders", ".", "csv">>,
     <<"2024", "/", "customers", ".", "xlsx">>,
     <<"2024", "/", "orders", ".", "xls">>,
     <<"2024", "/", "sub", "/", "orders", ".", "csv">>,
     <<"2024", "/", "orders", ".", "v2", ".", "csv">>,
     <<"2024", "/", ".", "csv">>,
     <<"2023", "/", "orders", ".", "csv">>}

OtherFileNames ==
    {<<"2024", "/", "notes", ".", "txt">>,
     <<"2024", "/", "orders">>,
     <<"2024", "/", "orders", ".", "CSV">>,
     <<"2024", "/", "csv">>}

ReadBlobPool ==
    {Blob(n, df) : n \in TableFileNames, df \in {Orders, Customers}}
        \cup {Blob(n, NoFrame) : n \in OtherFileNames}

\* the frames of columns id, name with at most n rows: id is an int64 column
\* or a float64 column with NaN, name an object column with None
Frames(n) ==
    UNION {{[columns |-> <<"id", "name">>,
             rows |-> [i \in 1..k |-> <<ids[i], names[i]>>]] :
               ids \in [1..k -> {Int("1"), Int("2")}]
                          \cup [1..k -> {Float("1.5"), NaN}],
               names \in [1..k -> {Text("a"), NaN}]} : k \in 0..n}

PushBlobPool == {Blob(<<"2024", "/", "data", ".", "csv">>, df) : df \in Frames(MaxRows)}

\* the state when the requests of `requests` have arrived, their payloads
\* drawn from `payloads`, the container holding one of `listings`
InitWith(requests, payloads, listings) ==
    /\ payload \in [requests -> payloads]
    /\ storage \in {[container |-> "acme", blobs |-> l] : l \in listings}
    /\ pc = [r \in requests |-> "start"]
    /\ token = [r \in requests |-> ""]
    /\ listing = [r \in requests |-> <<>>]
    /\ idx = [r \in requests |-> 0]
    /\ tables = [r \in requests |-> <<>>]
    /\ dataset_id = [r \in requests |-> 0]
    /\ report_id = [r \in requests |-> 0]
    /\ response = [r \in requests |-> [status |-> 0, body |-> NoBody]]
    /\ calls = [r \in requests |-> <<>>]
    /\ datasets = <<>>
    /\ reports = <<>>

\* concurrent requests
Init == InitWith(Reqs, FewPayloads, Listings(ConcBlobPool, ConcBlobs))
Spec == Init /\ [][Next]_vars

\* one request, every shape of payload
InitPayload ==
    InitWith({"r1"}, AllPayloads,
             {<<Blob(<<"2024", "/", "orders", ".", "csv">>, Orders)>>,
              <<Blob(<<"2024", "/", "notes", ".", "txt">>, NoFrame)>>})
SpecPayload == InitPayload /\ [][Next]_vars

\* one request, every listing of the folder
InitRead == InitWith({"r1"}, FewPayloads, Listings(ReadBlobPool, MaxBlobs))
SpecRead == InitRead /\ [][Next]_vars

\* one request, every content of one source file
InitPush == InitWith({"r1"}, FewPayloads, Listings(PushBlobPool, 1))
SpecPush == InitPush /\ [][Next]_vars

-----------------------------------------------------------------------------
(* Properties *)

Requests == DOMAIN payload

\* the calls of request r with operation op, in order
CallsOf(r, op) == SelectSeq(calls[r], LAMBDA c : c.op = op)

\* a required field is absent from the payload, or empty
MissingField(p) == \E k \in RequiredFields : k \notin DOMAIN p \/ p[k] = ""

\* the request has left generate, with a response
Ended(r) == pc[r] \in {"done", "failed"}

\* C1: a request lacking (or leaving empty) any of container_name,
\* folder_name, report_name, target_workspace_id is answered 400 and issues
\* no remote call at all; nothing is created on its behalf.
C1_MissingFieldRejected ==
    \A r \in Requests :
        MissingField(payload[r]) =>
            /\ calls[r] = <<>>
            /\ pc[r] \in {"start", "failed"}
            /\ pc[r] = "failed" => response[r].status = 400
            /\ \A d \in DOMAIN datasets : datasets[d].by # r
            /\ \A i \in DOMAIN reports : reports[i].by # r

C1_Witness ==
    \E r \in Requests :
        /\ "target_workspace_id" \notin DOMAIN payload[r]
        /\ {"container_name", "folder_name", "report_name"} \subseteq DOMAIN payload[r]
        /\ \A k \in DOMAIN payload[r] : payload[r][k] # ""
        /\ response[r].status = 400

\* the name ends in .csv, .xls or .xlsx
EndsInTableExtension(name) ==
    \E e \in {"csv", "xls", "xlsx"} :
        /\ Len(name) >= 2
        /\ name[Len(name)] = e
        /\ name[Len(name) - 1] = "."

\* the folder of request r has been listed and holds no table file
NoTableFileListed(r) ==
    /\ \E i \in DOMAIN calls[r] : calls[r][i].op = "list" /\ calls[r][i].ok
    /\ \A i \in DOMAIN listing[r] : ~EndsInTableExtension(listing[r][i].name)

\* C2 as stated: when the folder lists no blob, or only blobs ending in none
\* of .csv/.xls/.xlsx, the request ends with 404, and no create-dataset,
\* push or clone call is made.
C2_NoTableFileIsNotFound ==
    \A r \in Requests :
        (NoTableFileListed(r) /\ Ended(r)) =>
            /\ response[r].status = 404
            /\ \A i \in DOMAIN calls[r] : calls[r][i].op \notin {"create", "push", "clone"}

\* C2 as amended: such a request makes no create-dataset, push or clone
\* call; it ends with 404 once every listed blob has been downloaded, and
\* with the storage failure when the download of a listed blob fails (every
\* listed blob is downloaded, also those of other extensions).
C2_NoTableFileNothingCreated ==
    \A r \in Requests :
        NoTableFileListed(r) =>
            /\ \A i \in DOMAIN calls[r] : calls[r][i].op \notin {"create", "push", "clone"}
            /\ \A d \in DOMAIN datasets : datasets[d].by # r
            /\ tables[r] = <<>>
            /\ Ended(r) =>
                  IF \A i \in DOMAIN calls[r] : calls[r][i].ok
                  THEN /\ response[r].status = 404
                       /\ [i \in DOMAIN listing[r] |-> listing[r][i].name] =
                             [i \in DOMAIN CallsOf(r, "download") |->
                                 CallsOf(r, "download")[i].name]
                  ELSE /\ response[r].status = 500
                       /\ calls[r][Len(calls[r])].op = "download"

C2_Witness ==
    \E r \in Requests :
        /\ NoTableFileListed(r)
        /\ Len(listing[r]) = 2
        /\ Len(CallsOf(r, "download")) = 2
        /\ response[r].status = 404

Stage(op) ==
    CASE op = "token" -> 1
      [] op = "list" -> 2
      [] op = "download" -> 3
      [] op = "create" -> 4
      [] op = "push" -> 5
      [] op = "clone" -> 6

\* C3: the remote steps of one request occur in the order token, read,
\* create, push, clone; one create call completes before any push; the
\* pushes go table by table in the iteration order of the mapping, one per
\* table; the clone is issued only after the push of every table succeeded.
C3_StepsInOrder ==
    \A r \in Requests :
        LET cs == calls[r]
            pushes == CallsOf(r, "push")
            keys == dict_keys(tables[r])
        IN  /\ \A i, j \in DOMAIN cs : i < j => Stage(cs[i].op) <= Stage(cs[j].op)
            /\ \A op \in {"token", "list", "create", "clone"} : Len(CallsOf(r, op)) <= 1
            /\ \A i \in DOMAIN cs :
                  cs[i].op \in {"list", "create"} => cs[i - 1].ok /\ Stage(cs[i - 1].op) < Stage(cs[i].op)
            /\ pushes # <<>> => CallsOf(r, "create") # <<>> /\ CallsOf(r, "create")[1].ok
            /\ Len(pushes) <= Len(keys)
            /\ \A i \in DOMAIN pushes : pushes[i].name = keys[i]
            /\ CallsOf(r, "clone") # <<>> =>
                  /\ Len(pushes) = Len(keys)
                  /\ \A i \in DOMAIN pushes : pushes[i].ok

C3_Witness ==
    \E r \in Requests :
        /\ pc[r] = "done"
        /\ Len(tables[r]) >= 2
        /\ Len(CallsOf(r, "push")) = Len(tables[r])

\* s is an initial part of t
IsPrefix(s, t) == Len(s) <= Len(t) /\ SubSeq(t, 1, Len(s)) = s

\* what request r has pushed into dataset d, in order
PushedBy(d, r) == SelectSeq(datasets[d].pushed, LAMBDA p : p.by = r)

\* the request ended on the failure of its call of this operation
FailedAt(r, op) ==
    /\ pc[r] = "failed"
    /\ calls[r] # <<>>
    /\ calls[r][Len(calls[r])].op = op
    /\ ~calls[r][Len(calls[r])].ok

\* the rows of the first n tables of request r are in its dataset
FirstTablesPushed(r, n) ==
    /\ dataset_id[r] \in DOMAIN datasets
    /\ datasets[dataset_id[r]].by = r
    /\ datasets[dataset_id[r]].body = create_dataset_body(tables[r])
    /\ Len(PushedBy(dataset_id[r], r)) = n
    /\ \A i \in 1..n :
          /\ PushedBy(dataset_id[r], r)[i].table = tables[r][i].name
          /\ Len(PushedBy(dataset_id[r], r)[i].rows) = Len(tables[r][i].df.rows)

\* C4: a failed step ends the request: no later step runs, and nothing done
\* before is undone. When the push of the k-th table fails, the dataset and
\* the rows of tables 1..k-1 remain, tables k+1.. are never pushed and no
\* report is cloned; when the clone fails, the dataset and all rows remain.
C4_FailureAbortsWithoutRollback ==
    /\ [](\A r \in Requests :
            /\ \A i \in DOMAIN calls[r] : ~calls[r][i].ok => i = Len(calls[r]) /\ pc[r] = "failed"
            /\ FailedAt(r, "push") =>
                  /\ FirstTablesPushed(r, Len(CallsOf(r, "push")) - 1)
                  /\ CallsOf(r, "clone") = <<>>
                  /\ \A i \in DOMAIN reports : reports[i].by # r
            /\ FailedAt(r, "clone") =>
                  /\ FirstTablesPushed(r, Len(tables[r]))
                  /\ \A i \in DOMAIN reports : reports[i].by # r)
    /\ [][/\ \A r \in Requests :
                pc[r] = "failed" =>
                    pc'[r] = "failed" /\ calls'[r] = calls[r] /\ response'[r] = response[r]
          /\ IsPrefix(reports, reports')
          /\ Len(datasets) <= Len(datasets')
          /\ \A d \in DOMAIN datasets :
                /\ datasets'[d].ws = datasets[d].ws
                /\ datasets'[d].body = datasets[d].body
                /\ IsPrefix(datasets[d].pushed, datasets'[d].pushed)]_vars

C4_Witness ==
    \E r \in Requests :
        /\ FailedAt(r, "push")
        /\ Len(CallsOf(r, "push")) = 2
        /\ Len(PushedBy(dataset_id[r], r)) = 1
        /\ \E q \in Requests : FailedAt(q, "clone") /\ q # r

\* C5: under any interleaving, every push and the clone of a request target
\* the dataset id its own create call returned and its own
\* target_workspace_id; no request pushes to or clones against a dataset
\* another request created.
C5_OwnDatasetOnly ==
    /\ \A r \in Requests : \A i \in DOMAIN calls[r] :
          calls[r][i].op \in {"push", "clone"} =>
              /\ CallsOf(r, "create") # <<>>
              /\ calls[r][i].ds = CallsOf(r, "create")[1].ds
              /\ calls[r][i].ws = payload[r]["target_workspace_id"]
              /\ datasets[calls[r][i].ds].by = r
    /\ \A d \in DOMAIN datasets : \A i \in DOMAIN datasets[d].pushed :
          datasets[d].pushed[i].by = datasets[d].by
    /\ \A i \in DOMAIN reports :
          /\ datasets[reports[i].targetModelId].by = reports[i].by
          /\ reports[i].targetWorkspaceId = payload[reports[i].by]["target_workspace_id"]

\* two requests ran interleaved to the end: the one that created its dataset
\* first cloned its report last
C5_Witness ==
    \E r, q \in Requests :
        /\ r # q
        /\ pc[r] = "done" /\ pc[q] = "done"
        /\ dataset_id[r] < dataset_id[q]
        /\ report_id[r] > report_id[q]
        /\ payload[r]["target_workspace_id"] = payload[q]["target_workspace_id"]

\* the id of the dataset the create call of request r returned
CreatedId(r) == CallsOf(r, "create")[1].ds

\* the ids of the reports cloned for request r
ClonedIds(r) == {i \in DOMAIN reports : reports[i].by = r}

SourceOf(r, name) == (CHOOSE i \in DOMAIN tables[r] : tables[r][i].name = name)

\* C7: the schema of the created dataset lists exactly the columns of each
\* table, in order, all typed string, and every cell pushed is the text form
\* of the source value (the integer 1 is pushed as "1"), never a number.
C7_SchemaAndCellsAreText ==
    \A d \in DOMAIN datasets :
        LET by == datasets[d].by
        IN  /\ \A t \in DOMAIN datasets[d].body.tables :
                  /\ datasets[d].body.tables[t].name = tables[by][t].name
                  /\ datasets[d].body.tables[t].columns =
                        [j \in DOMAIN tables[by][t].df.columns |->
                            [name |-> tables[by][t].df.columns[j], dataType |-> "string"]]
            /\ \A p \in DOMAIN datasets[d].pushed :
                  LET src == tables[by][SourceOf(by, datasets[d].pushed[p].table)].df
                      sent == datasets[d].pushed[p].rows
                  IN  \A i \in DOMAIN src.rows : \A j \in DOMAIN src.columns :
                          notnull(src.rows[i][j]) =>
                              sent[i][src.columns[j]] =
                                  [kind |-> "str", text |-> src.rows[i][j].text]

\* the mapping read_blob_tables built has been returned to generate
Returned(r) ==
    \/ pc[r] \in {"create", "push", "clone", "return", "done"}
    \/ \E i \in DOMAIN calls[r] : calls[r][i].op = "create"

\* the stem of a blob name: the file name without directory and extension
Stem(name) == splitext_root(basename(name))

\* the positions of the listing of request r that hold a table file
TableFiles(r) == {i \in DOMAIN listing[r] : EndsInTableExtension(listing[r][i].name)}

\* C8: the keys of the mapping read_blob_tables returns are exactly the base
\* names of the listed blobs ending in .csv, .xls or .xlsx; other blobs add
\* no table, each name occurs once, and of two listed files of one base name
\* the table kept is the one of the later listed.
C8_TablesOfListing ==
    \A r \in Requests :
        Returned(r) =>
            /\ {tables[r][i].name : i \in DOMAIN tables[r]} =
                  {Stem(listing[r][i].name) : i \in TableFiles(r)}
            /\ \A i, j \in DOMAIN tables[r] :
                  tables[r][i].name = tables[r][j].name => i = j
            /\ \A i \in DOMAIN tables[r] :
                  LET same == {k \in TableFiles(r) :
                                  Stem(listing[r][k].name) = tables[r][i].name}
                      last == CHOOSE k \in same : \A m \in same : m <= k
                  IN  tables[r][i].df = listing[r][last].df

C8_Witness ==
    \E r \in Requests :
        /\ Returned(r)
        /\ \E i, j \in TableFiles(r) :
              /\ i < j
              /\ Stem(listing[r][i].name) = Stem(listing[r][j].name)
              /\ listing[r][i].df # listing[r][j].df
        /\ Len(tables[r]) = 1

\* C9: the same request made twice, both runs succeeding, issues two create
\* calls, two clone calls and two pushes per table: two distinct datasets
\* and two distinct report clones result.
C9_NoDeduplication ==
    \A r, q \in Requests :
        (r # q /\ payload[r] = payload[q] /\ pc[r] = "done" /\ pc[q] = "done") =>
            /\ dataset_id[r] # dataset_id[q]
            /\ report_id[r] # report_id[q]
            /\ \A x \in {r, q} :
                  /\ Len(CallsOf(x, "create")) = 1
                  /\ Len(CallsOf(x, "clone")) = 1
                  /\ Len(CallsOf(x, "push")) = Len(tables[x])
                  /\ datasets[dataset_id[x]].by = x
                  /\ reports[report_id[x]].by = x
                  /\ Len(datasets[dataset_id[x]].pushed) = Len(tables[x])

C9_Witness ==
    \E r, q \in Requests :
        /\ r # q
        /\ payload[r] = payload[q]
        /\ pc[r] = "done" /\ pc[q] = "done"
        /\ Len(tables[r]) = 2
        /\ Len(datasets) = 2 /\ Len(reports) = 2

\* C10: in every row push_rows sends, a cell that is null in the source
\* table is the empty string, never a null marker, and every other cell is
\* as read.
C10_NullIsEmptyString ==
    \A d \in DOMAIN datasets : \A p \in DOMAIN datasets[d].pushed :
        LET by == datasets[d].pushed[p].by
            src == tables[by][SourceOf(by, datasets[d].pushed[p].table)].df
            sent == datasets[d].pushed[p].rows
        IN  /\ Len(sent) = Len(src.rows)
            /\ \A i \in DOMAIN src.rows :
                  /\ DOMAIN sent[i] = Range(src.columns)
                  /\ \A j \in DOMAIN src.columns :
                        /\ sent[i][src.columns[j]].kind # "null"
                        /\ sent[i][src.columns[j]] =
                              IF src.rows[i][j].kind = "null"
                              THEN [kind |-> "str", text |-> ""]
                              ELSE src.rows[i][j]

C10_Witness ==
    \E d \in DOMAIN datasets : \E p \in DOMAIN datasets[d].pushed :
        LET src == tables[datasets[d].by][1].df
        IN  /\ src.rows # <<>>
            /\ src.rows[1][1].kind = "float"
            /\ src.rows[1][2].kind = "null"
            /\ datasets[d].pushed[p].rows[1]["name"] = [kind |-> "str", text |-> ""]

====
